---- MODULE Spec2Model ----
(***************************************************************************)
(* FrameBuffer of Waveshare_2-13inch_EPaper_driver.py: a packed            *)
(* 1-bit-per-pixel buffer with draw_pixel, draw_line (Bresenham),          *)
(* draw_polygon (outline + scanline fill) and draw_text (glyph polygons).  *)
(* The EPD transport class only ships the finished buffer and is left out. *)
(***************************************************************************)
EXTENDS Integers, Sequences, FiniteSets, TLC

\* ------------------------------------------------------------------ bounds
\* FrameBuffer(width, height, bg): the surface dimensions of the model.
width == 9
height == 3
\* How far outside the surface the coordinates of a call may lie.
Margin == 1
\* Top-level drawing calls made on one surface in Spec.
MaxCalls == 1
\* Longest vertex list handed to draw_polygon in SpecPoly.
MaxVerts == 4
\* Longest string handed to draw_text in SpecText.
MaxTextLen == 3

\* ------------------------------------------------------------- input sets
Colors == {0, 1}
\* bg / clear colours: all ink, all background, and a mixed bit pattern
BgBytes == {0, 255, 165}

\* ----------------------------------------------------------- FrameBuffer
line_bytes == (width + 7) \div 8
buffer_size == line_bytes * height

\* bytearray([bg] * buffer_size)
NewBuffer(bg) == [i \in 0..(buffer_size - 1) |-> bg]

\* clear(color): every byte overwritten
clear(buf, c) == [i \in DOMAIN buf |-> c]

RECURSIVE Pow2(_)
Pow2(n) == IF n = 0 THEN 1 ELSE 2 * Pow2(n - 1)

\* variant of BitMask: the lowest bit on the left, 1 << (x & 7)
BitMaskLsb(x) == Pow2(x % 8)

\* 0x80 >> (x & 7)
BitMask(x) == Pow2(7 - (x % 8))

HasBit(b, m) == (b \div m) % 2 = 1

\* b |= bit
OrBit(b, m) == IF HasBit(b, m) THEN b ELSE b + m

\* b &= ~bit
AndNotBit(b, m) == IF HasBit(b, m) THEN b - m ELSE b

\* variant of InBounds: x tested against the row's 8 * line_bytes bits
InBoundsStride(x, y) == ~(x < 0 \/ x >= 8 * line_bytes \/ y < 0 \/ y >= height)

InBounds(x, y) == ~(x < 0 \/ x >= width \/ y < 0 \/ y >= height)

\* y * line_bytes + (x >> 3)
ByteIndex(x, y) == y * line_bytes + (x \div 8)

draw_pixel(buf, x, y, c) ==
    IF ~InBounds(x, y) THEN buf
    ELSE IF c # 0
         THEN [buf EXCEPT ![ByteIndex(x, y)] = OrBit(@, BitMask(x))]
         ELSE [buf EXCEPT ![ByteIndex(x, y)] = AndNotBit(@, BitMask(x))]

\* ------------------------------------------------------------- draw_line
Abs(v) == IF v < 0 THEN -v ELSE v

\* dx, dy, sx, sy, err as computed on entry
line_dx(x0, x1) == Abs(x1 - x0)
line_dy(y0, y1) == -Abs(y1 - y0)
\* variant of line_sx: the step sign of x reversed
line_sx_reversed(x0, x1) == IF x0 > x1 THEN 1 ELSE -1
line_sx(x0, x1) == IF x0 < x1 THEN 1 ELSE -1
line_sy(y0, y1) == IF y0 < y1 THEN 1 ELSE -1

\* variant of line_advance: err tested against dy and dx the other way round
line_advance_swapped(px, py, e, dx, dy, sx, sy) ==
    LET e2 == 2 * e
        stepx == e2 <= dx
        stepy == e2 >= dy
    IN  [x   |-> IF stepx THEN px + sx ELSE px,
         y   |-> IF stepy THEN py + sy ELSE py,
         err |-> e + (IF stepx THEN dy ELSE 0) + (IF stepy THEN dx ELSE 0)]

\* One pass through the loop body below the exit test: e2 is taken once,
\* then x and y advance independently.
line_advance(px, py, e, dx, dy, sx, sy) ==
    LET e2 == 2 * e
        stepx == e2 >= dy
        stepy == e2 <= dx
    IN  [x   |-> IF stepx THEN px + sx ELSE px,
         y   |-> IF stepy THEN py + sy ELSE py,
         err |-> e + (IF stepx THEN dy ELSE 0) + (IF stepy THEN dx ELSE 0)]

\* TRUE for every v; TLC evaluates operator arguments and LET definitions
\* on demand, so the loops below test Done(v) to compute each step's buffer
\* before the next step starts instead of nesting the whole call.
Done(v) == v = v

RECURSIVE line_loop(_, _, _, _, _, _, _, _, _, _, _)
line_loop(buf, px, py, e, x1, y1, dx, dy, sx, sy, c) ==
    LET b1 == draw_pixel(buf, px, py, c)
    IN  IF Done(b1) /\ px = x1 /\ py = y1 THEN b1
        ELSE LET n == line_advance(px, py, e, dx, dy, sx, sy)
             IN  line_loop(b1, n.x, n.y, n.err, x1, y1, dx, dy, sx, sy, c)

draw_line(buf, x0, y0, x1, y1, c) ==
    line_loop(buf, x0, y0, line_dx(x0, x1) + line_dy(y0, y1), x1, y1,
              line_dx(x0, x1), line_dy(y0, y1), line_sx(x0, x1), line_sy(y0, y1), c)

\* ---------------------------------------------------------- draw_polygon
Min2(a, b) == IF a < b THEN a ELSE b
Max2(a, b) == IF a > b THEN a ELSE b

RECURSIVE SeqMin(_)
SeqMin(s) == IF Len(s) = 1 THEN s[1] ELSE Min2(s[1], SeqMin(Tail(s)))
RECURSIVE SeqMax(_)
SeqMax(s) == IF Len(s) = 1 THEN s[1] ELSE Max2(s[1], SeqMax(Tail(s)))

\* ys = [p[1] for p in point_list]; a point is <<x, y>>
poly_ys(pts) == [i \in 1..Len(pts) |-> pts[i][2]]
poly_xs(pts) == [i \in 1..Len(pts) |-> pts[i][1]]
min_y(pts) == Max2(SeqMin(poly_ys(pts)), 0)
max_y(pts) == Min2(SeqMax(poly_ys(pts)), height - 1)

\* variant of crosses: the vertical span closed at both ends
crosses_closed(p1, p2, y) ==
    /\ p1[2] # p2[2]
    /\ y >= Min2(p1[2], p2[2])
    /\ y <= Max2(p1[2], p2[2])

\* the scanline test of one edge: horizontal edges are skipped, the
\* vertical span is half open
crosses(p1, p2, y) ==
    /\ p1[2] # p2[2]
    /\ y >= Min2(p1[2], p2[2])
    /\ y < Max2(p1[2], p2[2])

\* x_int = p1.x + (y - p1.y) * (p2.x - p1.x) / (p2.y - p1.y), kept as the
\* exact fraction <<numerator, denominator>> with a positive denominator
\* (the quotient of small integers; the float the code holds orders, ceils
\* and floors as this fraction does)
x_int(p1, p2, y) ==
    LET d   == p2[2] - p1[2]
        num == p1[1] * d + (y - p1[2]) * (p2[1] - p1[1])
    IN  IF d > 0 THEN <<num, d>> ELSE <<-num, -d>>

FracLess(a, b) == a[1] * b[2] < b[1] * a[2]
\* math.ceil / math.floor of a fraction
Ceil(f) == -((-f[1]) \div f[2])
Floor(f) == f[1] \div f[2]

\* p2 = point_list[(i + 1) % n], with i counted from 1 here
next_vertex(pts, i) == pts[(i % Len(pts)) + 1]

RECURSIVE collect(_, _, _)
collect(pts, y, i) ==
    IF i > Len(pts) THEN <<>>
    ELSE IF crosses(pts[i], next_vertex(pts, i), y)
         THEN <<x_int(pts[i], next_vertex(pts, i), y)>> \o collect(pts, y, i + 1)
         ELSE collect(pts, y, i + 1)

RECURSIVE insert_sorted(_, _)
insert_sorted(s, v) ==
    IF s = <<>> THEN <<v>>
    ELSE IF FracLess(v, s[1]) THEN <<v>> \o s
         ELSE <<s[1]>> \o insert_sorted(Tail(s), v)

RECURSIVE sort(_)
sort(s) == IF s = <<>> THEN <<>> ELSE insert_sorted(sort(Tail(s)), s[1])

\* the sorted intersections of scanline y
intersections(pts, y) == sort(collect(pts, y, 1))

\* variant of span_start: clamped with min instead of max
span_start_min(xs, i) == Min2(Ceil(xs[i]), 0)

\* x_start, x_end of the pair starting at position i (counted from 1)
span_start(xs, i) == Max2(Ceil(xs[i]), 0)
span_end(xs, i) == Min2(Floor(xs[i + 1]), width - 1)

RECURSIVE fill_span(_, _, _, _, _)
fill_span(buf, x, x_end, y, c) ==
    IF Done(buf) /\ x > x_end THEN buf
    ELSE fill_span(draw_pixel(buf, x, y, c), x + 1, x_end, y, c)

\* for i in range(0, len(intersections), 2): if i + 1 < len(intersections)
RECURSIVE fill_pairs(_, _, _, _, _)
fill_pairs(buf, xs, i, y, c) ==
    IF Done(buf) /\ i > Len(xs) THEN buf
    ELSE IF i + 1 <= Len(xs)
         THEN fill_pairs(fill_span(buf, span_start(xs, i), span_end(xs, i), y, c),
                         xs, i + 2, y, c)
         ELSE fill_pairs(buf, xs, i + 2, y, c)

RECURSIVE fill_rows(_, _, _, _, _)
fill_rows(buf, pts, y, ymax, c) ==
    IF Done(buf) /\ y > ymax THEN buf
    ELSE fill_rows(fill_pairs(buf, intersections(pts, y), 1, y, c), pts, y + 1, ymax, c)

\* the body of "if fill:": one scanline pass over min_y..max_y
fill_pass(buf, pts, c) == fill_rows(buf, pts, min_y(pts), max_y(pts), c)

\* for point in point_list: the line old_point -> point, then, inside the
\* loop, the fill pass.  passes counts the fill passes made and edges lists
\* the edges outlined, in order.
RECURSIVE poly_loop(_, _, _, _, _, _, _, _)
poly_loop(buf, pts, i, old_point, c, fill, passes, edges) ==
    IF Done(buf) /\ i > Len(pts) THEN [buf |-> buf, raised |-> "none", passes |-> passes, edges |-> edges]
    ELSE LET b1 == draw_line(buf, old_point[1], old_point[2], pts[i][1], pts[i][2], c)
             b2 == IF fill THEN fill_pass(b1, pts, c) ELSE b1
         IN  poly_loop(b2, pts, i + 1, pts[i], c, fill,
                       IF fill THEN passes + 1 ELSE passes,
                       Append(edges, <<old_point, pts[i]>>))

\* old_point = point_list[-1] raises IndexError on an empty list
draw_polygon(buf, pts, c, fill) ==
    IF Len(pts) = 0
    THEN [buf |-> buf, raised |-> "IndexError", passes |-> 0, edges |-> <<>>]
    ELSE poly_loop(buf, pts, 1, pts[Len(pts)], c, fill, 0, <<>>)

\* ------------------------------------------------------------ transforms
\* int(round(x * scale)) on integer coordinates and an integer scale
scale_polygon(polygon, scale) ==
    IF scale = 1 THEN polygon
    ELSE [i \in 1..Len(polygon) |-> <<polygon[i][1] * scale, polygon[i][2] * scale>>]

move_polygon(polygon, delta_x, delta_y) ==
    [i \in 1..Len(polygon) |-> <<polygon[i][1] + delta_x, polygon[i][2] + delta_y>>]

\* angle = 0 returns the polygon itself.  For the quarter turns the rounded
\* rotation matrix is exact: (x cos - y sin, x sin + y cos).
rotate_polygon(polygon, angle) ==
    IF angle = 0 THEN polygon
    ELSE LET cos_theta == CASE angle = 90 -> 0 [] angle = 180 -> -1 [] angle = 270 -> 0
             sin_theta == CASE angle = 90 -> 1 [] angle = 180 -> 0 [] angle = 270 -> -1
         IN  [i \in 1..Len(polygon) |->
                 <<polygon[i][1] * cos_theta - polygon[i][2] * sin_theta,
                   polygon[i][1] * sin_theta + polygon[i][2] * cos_theta>>]

\* ------------------------------------------------------------- draw_text
\* data = json.load(characters.json): the glyph table, a polygon per
\* character on a unit grid.  "?" stands for a character with no entry.
data == [ch \in {"A", "L"} |->
            IF ch = "A" THEN <<<<0, 2>>, <<1, 0>>, <<2, 2>>>>
                        ELSE <<<<0, 0>>, <<0, 2>>, <<6, 2>>, <<6, 1>>>>]
Chars == {"A", "L", " ", "?"}

\* variant of advance_dx: the advance not scaled by size
advance_dx_unscaled(size) == 7

\* advance_dx, advance_dy for rotate = 0
advance_dx(size) == 7 * size
advance_dy(size) == 0

\* the polygon handed to draw_polygon for character ch at cursor (tx, ty)
char_polygon(ch, size, rotate, px, py) ==
    move_polygon(rotate_polygon(scale_polygon(data[ch], size), rotate), px, py)

\* ------------------------------------------------------------------ state
VARIABLES
    buffer,     \* self.buffer
    fillByte,   \* the byte the buffer was last filled with (bg or clear)
    pc,         \* "idle", "line", "poly", "text", "done"
    calls,      \* drawing calls made so far
    op,         \* the call in progress or just finished
    args,       \* its arguments
    pre,        \* the buffer when the call began
    raised,     \* the exception the call ended with, or "none"
    cx, cy, err,    \* draw_line: x0, y0, err as the loop updates them
    steps,          \* draw_line: passes made through the loop body
    last_plot,      \* draw_line: the point of the latest draw_pixel
    tx, ty, k,      \* draw_text: cursor, and the characters consumed
    passes, edges   \* draw_polygon: fill passes made, edges outlined

vars == <<buffer, fillByte, pc, calls, op, args, pre, raised, cx, cy, err, steps,
          last_plot, tx, ty, k, passes, edges>>

NoArgs == [x0 |-> 0, y0 |-> 0, x1 |-> 0, y1 |-> 0, color |-> 0, fill |-> FALSE,
           point_list |-> <<>>, text |-> <<>>, size |-> 0, rotate |-> 0]

PixelArgs(x, y, c) == [NoArgs EXCEPT !.x0 = x, !.y0 = y, !.color = c]
LineArgs(p, q, c) ==
    [NoArgs EXCEPT !.x0 = p[1], !.y0 = p[2], !.x1 = q[1], !.y1 = q[2], !.color = c]
PolyArgs(pts, c, f) == [NoArgs EXCEPT !.point_list = pts, !.color = c, !.fill = f]
TextArgs(o, t, s, c, f) ==
    [NoArgs EXCEPT !.x0 = o[1], !.y0 = o[2], !.text = t, !.size = s, !.color = c,
                   !.fill = f]

\* ------------------------------------------------------------ call inputs
XS == (0 - Margin)..(width - 1 + Margin)
YS == (0 - Margin)..(height - 1 + Margin)
Points == XS \X YS

RECURSIVE SeqsUpTo(_, _)
SeqsUpTo(S, n) ==
    IF n = 0 THEN {<<>>}
    ELSE LET shorter == SeqsUpTo(S, n - 1)
         IN  shorter \cup {Append(q, e) : q \in {t \in shorter : Len(t) = n - 1}, e \in S}

\* Spec: a few lines, polygons and strings between calls of draw_pixel
SampleLinePoints == {<<0, 0>>, <<width - 1, height - 1>>, <<width, 1>>,
                     <<0 - Margin, height>>}
SamplePolygons == {<<>>,
                   <<<<1, 1>>>>,
                   <<<<0, 0>>, <<width, 1>>>>,
                   <<<<1, 0>>, <<width - 2, 1>>, <<2, height - 1>>>>,
                   <<<<1, 0>>, <<width, height - 1>>, <<width, 0>>, <<1, height - 1>>>>}
SampleTexts == {<<"A">>, <<" ", "L">>, <<"A", "?", "L">>}

\* SpecPoly: every vertex list up to MaxVerts over these points, and every
\* axis-aligned rectangle [[a,b],[c,b],[c,d],[a,d]] inside the surface
PolyPoints == {<<1, 0>>, <<width - 2, 0>>, <<1, height - 1>>, <<width - 2, height - 1>>,
               <<0 - Margin, 1>>}
Rectangles == {<<<<a, b>>, <<c, b>>, <<c, d>>, <<a, d>>>> :
                   <<a, c>> \in {ac \in (0..(width - 1)) \X (0..(width - 1)) : ac[1] < ac[2]},
                   <<b, d>> \in {bd \in (0..(height - 1)) \X (0..(height - 1)) : bd[1] < bd[2]}}
PolyLists == SeqsUpTo(PolyPoints, MaxVerts) \cup Rectangles

\* SpecText: every string up to MaxTextLen
TextLists == SeqsUpTo(Chars, MaxTextLen)
TextOrigins == {<<0, 0>>, <<1 - 7, 0 - Margin>>}
TextSizes == {1, 2}

\* ------------------------------------------------------------------ steps
Idle == /\ pc = "idle"
        /\ calls < MaxCalls

Begin(o, a) ==
    /\ op' = o
    /\ args' = a
    /\ pre' = buffer
    /\ calls' = calls + 1
    /\ raised' = "none"

NoLine == /\ cx' = 0 /\ cy' = 0 /\ err' = 0 /\ steps' = 0 /\ last_plot' = <<>>
NoText == /\ tx' = 0 /\ ty' = 0 /\ k' = 0
NoPoly == /\ passes' = 0 /\ edges' = <<>>

\* FrameBuffer(width, height, bg)
Constructed ==
    /\ fillByte \in BgBytes
    /\ buffer = NewBuffer(fillByte)
    /\ pre = buffer
    /\ raised = "none"

LineIdle == /\ cx = 0 /\ cy = 0 /\ err = 0 /\ steps = 0 /\ last_plot = <<>>
TextIdle == /\ tx = 0 /\ ty = 0 /\ k = 0
PolyIdle == /\ passes = 0 /\ edges = <<>>

Init ==
    /\ Constructed
    /\ pc = "idle"
    /\ calls = 0
    /\ op = "none"
    /\ args = NoArgs
    /\ LineIdle /\ TextIdle /\ PolyIdle

\* FrameBuffer.clear(color)
Clear ==
    /\ pc = "idle"
    /\ \E c \in BgBytes :
        /\ buffer' = clear(buffer, c)
        /\ fillByte' = c
    /\ pre' = buffer'
    /\ UNCHANGED <<pc, calls, op, args, raised, cx, cy, err, steps, last_plot,
                   tx, ty, k, passes, edges>>

\* FrameBuffer.draw_pixel(x, y, color)
DrawPixel ==
    /\ Idle
    /\ \E x \in XS, y \in YS, c \in Colors :
        /\ buffer' = draw_pixel(buffer, x, y, c)
        /\ Begin("draw_pixel", PixelArgs(x, y, c))
    /\ pc' = "done"
    /\ UNCHANGED <<fillByte, cx, cy, err, steps, last_plot, tx, ty, k, passes, edges>>

\* FrameBuffer.draw_line(x0, y0, x1, y1, color): entry, up to the loop
DrawLine ==
    /\ Idle
    /\ \E p \in SampleLinePoints, q \in SampleLinePoints, c \in Colors :
        /\ Begin("draw_line", LineArgs(p, q, c))
        /\ cx' = p[1]
        /\ cy' = p[2]
        /\ err' = line_dx(p[1], q[1]) + line_dy(p[2], q[2])
    /\ steps' = 0
    /\ last_plot' = <<>>
    /\ pc' = "line"
    /\ UNCHANGED <<buffer, fillByte, tx, ty, k, passes, edges>>

\* self.draw_pixel(x0, y0, color) at the top of the loop
LinePlot ==
    /\ buffer' = draw_pixel(buffer, cx, cy, args.color)
    /\ last_plot' = <<cx, cy>>

\* plot, then x0 == x1 and y0 == y1: break
LineLast ==
    /\ pc = "line"
    /\ LinePlot
    /\ cx = args.x1 /\ cy = args.y1
    /\ pc' = "done"
    /\ UNCHANGED <<fillByte, calls, op, args, pre, raised, cx, cy, err, steps,
                   tx, ty, k, passes, edges>>

\* plot, then advance
LineMove ==
    /\ pc = "line"
    /\ LinePlot
    /\ ~(cx = args.x1 /\ cy = args.y1)
    /\ \E n \in {line_advance(cx, cy, err,
                              line_dx(args.x0, args.x1), line_dy(args.y0, args.y1),
                              line_sx(args.x0, args.x1), line_sy(args.y0, args.y1))} :
        /\ cx' = n.x
        /\ cy' = n.y
        /\ err' = n.err
    /\ steps' = steps + 1
    /\ UNCHANGED <<fillByte, pc, calls, op, args, pre, raised, tx, ty, k, passes, edges>>

\* the body of draw_polygon(pts, c, f) and what it leaves behind
PolygonBody(pts, c, f) ==
    \E r \in {draw_polygon(buffer, pts, c, f)} :
        /\ buffer' = r.buf
        /\ raised' = r.raised
        /\ passes' = r.passes
        /\ edges' = r.edges

\* FrameBuffer.draw_polygon(point_list, color, fill), the whole call
DrawPolygon ==
    /\ Idle
    /\ \E pts \in SamplePolygons, c \in Colors, f \in BOOLEAN :
        /\ PolygonBody(pts, c, f)
        /\ op' = "draw_polygon"
        /\ args' = PolyArgs(pts, c, f)
    /\ pre' = buffer
    /\ calls' = calls + 1
    /\ pc' = "done"
    /\ UNCHANGED <<fillByte, cx, cy, err, steps, last_plot, tx, ty, k>>

\* FrameBuffer.draw_text(x, y, text, size, color, fill, rotate = 0): entry,
\* up to the loop over the characters
DrawText ==
    /\ Idle
    /\ \E t \in SampleTexts, s \in TextSizes, c \in Colors, f \in BOOLEAN :
        /\ Begin("draw_text", TextArgs(<<0, 0>>, t, s, c, f))
    /\ tx' = 0
    /\ ty' = 0
    /\ k' = 0
    /\ pc' = "text"
    /\ UNCHANGED <<buffer, fillByte, cx, cy, err, steps, last_plot, passes, edges>>

\* for c in text: the character at position k (counted from 0)
TextAt == args.text[k + 1]

TextAdvance ==
    /\ tx' = tx + advance_dx(args.size)
    /\ ty' = ty + advance_dy(args.size)
    /\ k' = k + 1

\* c == " ": advance only
TextSpace ==
    /\ pc = "text"
    /\ k < Len(args.text)
    /\ TextAt = " "
    /\ TextAdvance
    /\ UNCHANGED <<buffer, fillByte, pc, calls, op, args, pre, raised, cx, cy, err,
                   steps, last_plot, passes, edges>>

\* variant of TextMissing: the character is skipped like a space
TextMissingSkipped ==
    /\ pc = "text"
    /\ k < Len(args.text)
    /\ TextAt # " "
    /\ TextAt \notin DOMAIN data
    /\ TextAdvance
    /\ UNCHANGED <<buffer, fillByte, pc, calls, op, args, pre, raised, cx, cy, err,
                   steps, last_plot, passes, edges>>

\* char_polygon = data[c] raises KeyError, which leaves draw_text
TextMissing ==
    /\ pc = "text"
    /\ k < Len(args.text)
    /\ TextAt # " "
    /\ TextAt \notin DOMAIN data
    /\ raised' = "KeyError"
    /\ pc' = "done"
    /\ UNCHANGED <<buffer, fillByte, calls, op, args, pre, cx, cy, err, steps,
                   last_plot, tx, ty, k, passes, edges>>

\* the glyph of c, scaled, rotated, moved to the cursor and drawn
TextGlyph ==
    /\ pc = "text"
    /\ k < Len(args.text)
    /\ TextAt # " "
    /\ TextAt \in DOMAIN data
    /\ \E r \in {draw_polygon(buffer, char_polygon(TextAt, args.size, args.rotate, tx, ty),
                              args.color, args.fill)} :
        /\ buffer' = r.buf
        /\ passes' = r.passes
        /\ edges' = r.edges
    /\ TextAdvance
    /\ UNCHANGED <<fillByte, pc, calls, op, args, pre, raised, cx, cy, err, steps,
                   last_plot>>

\* the loop over the characters is exhausted
TextEnd ==
    /\ pc = "text"
    /\ k = Len(args.text)
    /\ pc' = "done"
    /\ UNCHANGED <<buffer, fillByte, calls, op, args, pre, raised, cx, cy, err,
                   steps, last_plot, tx, ty, k, passes, edges>>

\* the call returns (or its exception reaches the caller); the surface stays
Return ==
    /\ pc = "done"
    /\ pc' = "idle"
    /\ op' = "none"
    /\ args' = NoArgs
    /\ pre' = buffer
    /\ raised' = "none"
    /\ NoLine /\ NoText /\ NoPoly
    /\ UNCHANGED <<buffer, fillByte, calls>>

Next ==
    \/ Clear
    \/ DrawPixel
    \/ DrawLine
    \/ LineLast
    \/ LineMove
    \/ DrawPolygon
    \/ DrawText
    \/ TextSpace
    \/ TextMissing
    \/ TextGlyph
    \/ TextEnd
    \/ Return

Spec == Init /\ [][Next]_vars

\* ---------------------------------------------- draw_line, step by step
\* Entry of draw_line(x0, y0, x1, y1, color) on a new surface, for every
\* pair of end points in and around it: err = dx + dy, nothing plotted yet.
InitLine ==
    /\ Constructed
    /\ pc = "line"
    /\ calls = 1
    /\ op = "draw_line"
    /\ \E p \in Points, q \in Points, c \in Colors :
        /\ args = LineArgs(p, q, c)
        /\ cx = p[1]
        /\ cy = p[2]
        /\ err = line_dx(p[1], q[1]) + line_dy(p[2], q[2])
    /\ steps = 0
    /\ last_plot = <<>>
    /\ TextIdle /\ PolyIdle

NextLine ==
    \/ LineLast
    \/ LineMove

SpecLine == InitLine /\ [][NextLine]_vars

\* ------------------------------------------- draw_polygon, call by call
\* Entry of draw_polygon(point_list, color, fill) on a new surface.
InitPoly ==
    /\ Constructed
    /\ pc = "poly"
    /\ calls = 1
    /\ op = "draw_polygon"
    /\ \E pts \in PolyLists, c \in Colors, f \in BOOLEAN : args = PolyArgs(pts, c, f)
    /\ LineIdle /\ TextIdle /\ PolyIdle

PolyRun ==
    /\ pc = "poly"
    /\ PolygonBody(args.point_list, args.color, args.fill)
    /\ pc' = "done"
    /\ UNCHANGED <<fillByte, calls, op, args, pre, cx, cy, err, steps, last_plot,
                   tx, ty, k>>

NextPoly == PolyRun

SpecPoly == InitPoly /\ [][NextPoly]_vars

\* ------------------------------------------- draw_text, character by character
\* Entry of draw_text(x, y, text, size, color, fill) on a new surface, the
\* glyph table loaded.
InitText ==
    /\ Constructed
    /\ pc = "text"
    /\ calls = 1
    /\ op = "draw_text"
    /\ \E o \in TextOrigins, t \in TextLists, s \in TextSizes, c \in Colors,
          f \in BOOLEAN :
        /\ args = TextArgs(o, t, s, c, f)
        /\ tx = o[1]
        /\ ty = o[2]
    /\ k = 0
    /\ LineIdle /\ PolyIdle

NextText ==
    \/ TextSpace
    \/ TextMissing
    \/ TextGlyph
    \/ TextEnd

SpecText == InitText /\ [][NextText]_vars

\* ------------------------------------------------------------- properties
Rows == 0..(height - 1)
\* every bit column of a row, the padding columns width..8*line_bytes-1 included
Cols == 0..(8 * line_bytes - 1)
PadCols == width..(8 * line_bytes - 1)

\* bit 0x80 >> (x & 7) of a byte, as 0 or 1
BitOf(b, x) == (b \div (128 \div Pow2(x % 8))) % 2
\* the bit of column x in row y, read from byte y * line_bytes + (x >> 3)
PixelBit(buf, x, y) == BitOf(buf[y * line_bytes + (x \div 8)], x)
Tone(c) == IF c # 0 THEN 1 ELSE 0
OnSurface(x, y) == x \in 0..(width - 1) /\ y \in Rows
IsBuffer(buf) == /\ DOMAIN buf = 0..(buffer_size - 1)
                 /\ \A i \in DOMAIN buf : buf[i] \in 0..255

\* C1: draw_pixel at an in-bounds (x, y) leaves that bit equal to the tone
\* (1 for a non-zero colour, 0 for zero) and every other bit of the buffer,
\* padding included, as it was before the call.
C1_PixelWrite ==
    (pc = "done" /\ op = "draw_pixel" /\ OnSurface(args.x0, args.y0)) =>
        /\ IsBuffer(buffer)
        /\ \A y \in Rows, x \in Cols :
              PixelBit(buffer, x, y) =
                  IF x = args.x0 /\ y = args.y0 THEN Tone(args.color)
                  ELSE PixelBit(pre, x, y)

\* a pixel of the second byte of a row written with the tone it did not have
C1_Witness ==
    /\ pc = "done" /\ op = "draw_pixel" /\ OnSurface(args.x0, args.y0)
    /\ args.x0 >= 8
    /\ calls = MaxCalls
    /\ buffer # pre

\* C2: draw_pixel at an out-of-bounds (x, y) leaves the buffer as it was and
\* raises nothing, and in every state, whatever calls were made, the padding
\* bits of every row still hold the bits of the byte the buffer was last
\* filled with.
C2_Clipped ==
    /\ (pc = "done" /\ op = "draw_pixel" /\ ~OnSurface(args.x0, args.y0)) =>
          (buffer = pre /\ raised = "none")
    /\ \A y \in Rows, x \in PadCols : PixelBit(buffer, x, y) = BitOf(fillByte, x)

\* draw_pixel aimed at a padding bit that holds the other tone
C2_Witness ==
    /\ pc = "done" /\ op = "draw_pixel"
    /\ args.x0 \in PadCols /\ args.y0 \in Rows
    /\ Tone(args.color) # PixelBit(pre, args.x0, args.y0)

HorizontalCall ==
    /\ op = "draw_line"
    /\ args.y0 = args.y1
    /\ OnSurface(args.x0, args.y0)
    /\ OnSurface(args.x1, args.y1)

\* C3: draw_line between two in-bounds points of one row never changes a
\* bit outside the segment min(x0,x1)..max(x0,x1) of that row, and when it
\* returns every pixel of the segment holds the tone.
C3_HorizontalLine ==
    HorizontalCall =>
        /\ \A y \in Rows, x \in Cols :
              ~(y = args.y0 /\ x >= Min2(args.x0, args.x1) /\ x <= Max2(args.x0, args.x1))
                  => PixelBit(buffer, x, y) = PixelBit(pre, x, y)
        /\ pc = "done" =>
              \A x \in Min2(args.x0, args.x1)..Max2(args.x0, args.x1) :
                  PixelBit(buffer, x, args.y0) = Tone(args.color)

\* a right-to-left horizontal line of three or more pixels that changed them
C3_Witness ==
    /\ pc = "done" /\ HorizontalCall
    /\ args.x0 >= args.x1 + 2
    /\ \A x \in args.x1..args.x0 : PixelBit(pre, x, args.y0) # Tone(args.color)

Between(a, v, b) == Min2(a, b) <= v /\ v <= Max2(a, b)

\* C5: the loop of draw_line makes at most max(|x1-x0|, |y1-y0|) passes
\* through its body, so it ends; the current point stays between the two
\* end points in x and in y; and the loop is left only with the current
\* point at (x1, y1) and that point the last one plotted.
C5_LineTerminates ==
    (op = "draw_line") =>
        /\ Between(args.x0, cx, args.x1)
        /\ Between(args.y0, cy, args.y1)
        /\ steps <= Max2(Abs(args.x1 - args.x0), Abs(args.y1 - args.y0))
        /\ pc = "done" => (cx = args.x1 /\ cy = args.y1 /\ last_plot = <<args.x1, args.y1>>)

\* a slanted line, neither axis-parallel nor diagonal, ending off the surface
C5_Witness ==
    /\ pc = "done" /\ op = "draw_line"
    /\ ~OnSurface(args.x1, args.y1)
    /\ Abs(args.x1 - args.x0) >= 2
    /\ Abs(args.y1 - args.y0) >= 1
    /\ Abs(args.x1 - args.x0) # Abs(args.y1 - args.y0)
    /\ steps >= 2

RectCall ==
    /\ op = "draw_polygon"
    /\ args.fill
    /\ args.point_list \in Rectangles
    /\ pre = NewBuffer(fillByte)

\* C4: on a blank surface draw_polygon with fill and the rectangle
\* [[a,b],[c,b],[c,d],[a,d]], a < c, b < d, in bounds, leaves the tone in
\* exactly the pixels a <= x <= c, b <= y <= d and every other bit as it was.
C4_RectangleFill ==
    (pc = "done" /\ RectCall) =>
        LET a == args.point_list[1][1]
            b == args.point_list[1][2]
            c == args.point_list[3][1]
            d == args.point_list[3][2]
        IN  /\ raised = "none"
            /\ \A y \in Rows, x \in Cols :
                  PixelBit(buffer, x, y) =
                      IF a <= x /\ x <= c /\ b <= y /\ y <= d THEN Tone(args.color)
                      ELSE PixelBit(pre, x, y)

\* a rectangle with interior pixels, away from the left edge, drawn in the
\* tone the surface did not have
C4_Witness ==
    /\ pc = "done" /\ RectCall
    /\ args.point_list[1][1] >= 1
    /\ args.point_list[3][1] >= args.point_list[1][1] + 2
    /\ args.point_list[3][2] >= args.point_list[1][2] + 2
    /\ PixelBit(buffer, args.point_list[1][1] + 1, args.point_list[1][2] + 1)
           # PixelBit(pre, args.point_list[1][1] + 1, args.point_list[1][2] + 1)

\* C6: draw_polygon with fewer than 3 vertices ends with an error and the
\* buffer as it was before the call.
C6_FewVerticesRejected ==
    (pc = "done" /\ op = "draw_polygon" /\ Len(args.point_list) < 3) =>
        (raised # "none" /\ buffer = pre)

\* position (from 1) of the first character that is neither a space nor in
\* the glyph table; 0 when there is none
RECURSIVE FirstMissingFrom(_, _)
FirstMissingFrom(t, i) ==
    IF i > Len(t) THEN 0
    ELSE IF t[i] # " " /\ t[i] \notin DOMAIN data THEN i
         ELSE FirstMissingFrom(t, i + 1)
FirstMissing(t) == FirstMissingFrom(t, 1)

\* The buffer after the first n characters of a.text were drawn on buf with
\* character i (from 0) placed at (x + 7 * size * i, y): its glyph scaled by
\* size and moved there; spaces and characters without a glyph draw nothing.
RECURSIVE TextRaster(_, _, _)
TextRaster(buf, a, n) ==
    IF n = 0 THEN buf
    ELSE LET before == TextRaster(buf, a, n - 1)
             ch == a.text[n]
         IN  IF Done(before) /\ ch \in DOMAIN data
             THEN draw_polygon(before,
                               move_polygon(scale_polygon(data[ch], a.size),
                                            a.x0 + 7 * a.size * (n - 1), a.y0),
                               a.color, a.fill).buf
             ELSE before

\* C7: when the text holds a non-space character without a glyph, draw_text
\* ends with the KeyError of the first such character, and the buffer holds
\* the characters before it and nothing of it or of any character after it.
C7_MissingGlyph ==
    (pc = "done" /\ op = "draw_text" /\ FirstMissing(args.text) # 0) =>
        /\ raised = "KeyError"
        /\ k = FirstMissing(args.text) - 1
        /\ buffer = TextRaster(pre, args, FirstMissing(args.text) - 1)

\* a glyph drawn, then the missing character, then a glyph that stays undrawn
C7_Witness ==
    /\ pc = "done" /\ op = "draw_text" /\ raised = "KeyError"
    /\ k >= 1
    /\ buffer # pre
    /\ Len(args.text) >= k + 2
    /\ args.text[k + 2] \in DOMAIN data
    /\ TextRaster(pre, [args EXCEPT !.text[k + 1] = " "], k + 2) # buffer

\* C8: with rotate = 0 the cursor after k characters is (x + 7*size*k, y),
\* space or not, and the buffer holds exactly the glyphs of those k
\* characters, character i at (x + 7*size*i, y); a space draws nothing.
C8_TextCursor ==
    (op = "draw_text" /\ args.rotate = 0) =>
        /\ tx = args.x0 + 7 * args.size * k
        /\ ty = args.y0
        /\ buffer = TextRaster(pre, args, k)

\* a space, then a glyph at twice the unit size that changed the surface
C8_Witness ==
    /\ op = "draw_text" /\ args.rotate = 0
    /\ k >= 2
    /\ args.text[1] = " "
    /\ args.text[2] \in DOMAIN data
    /\ args.size = 2
    /\ buffer # pre

\* the n edges of the closed polygon, from the closing edge on
PolygonEdges(pts) ==
    [i \in 1..Len(pts) |-> <<pts[IF i = 1 THEN Len(pts) ELSE i - 1], pts[i]>>]

\* C9: one call of draw_polygon with fill makes one scanline fill pass,
\* whatever the number of vertices, and outlines each of the n edges once.
C9_FillOnce ==
    (pc = "done" /\ op = "draw_polygon" /\ args.fill /\ raised = "none") =>
        /\ passes = 1
        /\ edges = PolygonEdges(args.point_list)

\* the positions 1, 3, 5, ... at which a pair of intersections starts
PairStarts(xs) == {i \in 1..Len(xs) : i % 2 = 1 /\ i + 1 <= Len(xs)}

\* C10: on every scanline the fill of draw_polygon visits, the number of
\* intersections collected is even (no intersection is left unpaired), and
\* every pixel of every span filled lies between the least and the greatest
\* vertex x, clamped to 0..width-1.
C10_EvenCrossings ==
    (op = "draw_polygon" /\ args.fill /\ Len(args.point_list) >= 1) =>
        \A y \in min_y(args.point_list)..max_y(args.point_list) :
            LET xs == intersections(args.point_list, y)
            IN  /\ Len(xs) % 2 = 0
                /\ \A i \in PairStarts(xs) :
                      \A x \in span_start(xs, i)..span_end(xs, i) :
                          /\ x >= Max2(SeqMin(poly_xs(args.point_list)), 0)
                          /\ x <= Min2(SeqMax(poly_xs(args.point_list)), width - 1)

\* a filled polygon crossing itself: a scanline with four intersections
C10_Witness ==
    /\ pc = "done" /\ op = "draw_polygon" /\ args.fill
    /\ Len(args.point_list) >= 1
    /\ \E y \in min_y(args.point_list)..max_y(args.point_list) :
          /\ Len(intersections(args.point_list, y)) = 4
          /\ \E i \in 1..Len(args.point_list) : args.point_list[i][2] = y

====
